---- MODULE Spec2Model ----
(***************************************************************************)
(* Model of fast-bump's concurrent arena, FastArena<T> (src/fast_arena.rs). *)
(*                                                                         *)
(* The arena is a contiguous buffer of `cap` value cells with one          *)
(* readiness flag per cell, a claim cursor and a published boundary.       *)
(* Writer threads run alloc() step by step (one atomic memory access per   *)
(* step); a reader thread runs the &self read accessors; the &mut self     *)
(* operations run atomically and only while no thread holds a shared       *)
(* borrow, which is what Rust's borrow checker enforces.                   *)
(* Atomics are modelled as sequentially consistent.                        *)
(***************************************************************************)
EXTENDS Integers, Sequences, FiniteSets, TLC

\* ---- bounds of the model -------------------------------------------------
MaxCap == 3        \* largest capacity the storage may grow to
MaxInitCap == 2    \* largest argument given to with_capacity
MaxCursor == 3     \* the claim cursor is not pushed past this value
NThreads == 2      \* number of writer threads
MaxSeq == 2        \* longest sequence given to extend / alloc_extend

Threads == 1..NThreads
Runner == NThreads   \* the thread of single-threaded use, and the one never stalled
\* T is opaque to the arena (no operation inspects a value), so two distinct
\* values are enough to tell the contents of different slots apart
Values == {1, 2}
Pos == 0..(MaxCap - 1)      \* positions the storage can ever have
NoVal == 0                  \* an uninitialised / destroyed / moved-out cell

Max(a, b) == IF a >= b THEN a ELSE b

VARIABLES
    cap,        \* FastArena.cap
    cursor,     \* FastArena.cursor
    published,  \* FastArena.published
    data,       \* FastArena.data : position -> cell content
    flags,      \* FastArena.flags : position -> readiness flag
    pc,         \* writer thread -> position inside alloc()
    slot,       \* writer thread -> local `slot` of alloc()
    val,        \* writer thread -> argument `value` of alloc()
    p,          \* writer thread -> local `p` of advance_published() (0 while dead)
    rpc,        \* reader: position inside a read accessor (get, try_get, ...)
    rloc,       \* reader: local copy of the published boundary
    held,       \* reader: a copy of a handle it keeps (Idx is Copy), with the value
                \* given to the alloc that returned it; <<>> while it keeps none
    handles,    \* history: position -> number of live handles alloc returned
    orig,       \* history: position -> value given to the alloc that returned it
    failed,     \* history: an alloc has failed with "arena full" since the latest
                \* rollback, reset or drain (or since construction)
    err,        \* panic message of the latest alloc or &mut call, "none" if it had none
    dropLog,    \* positions whose destructor the latest alloc or &mut call ran, in order
    out,        \* values the latest call moved out to its caller (drain, into_iter)
    torn,       \* the arena has been dropped (Drop for FastArena has run)
    doubleDrop, \* history: a destructor ran on a cell that held no live value
    leaked,     \* history: a live value was overwritten or released without its destructor
    items,      \* Arena.items of a sequential Arena<T> that is given every call
                \* the FastArena is given, in the order the calls start
    ext         \* writer thread -> its alloc_extend / extend call: the elements
                \* not yet handed to alloc, the local `first`, and for the record
                \* the sequence given, len() at the call and the positions claimed

vars == <<cap, cursor, published, data, flags, pc, slot, val, p,
          rpc, rloc, held, handles, orig, failed, err, dropLog, out, torn, doubleDrop, leaked,
          items, ext>>

arenaVars == <<cap, cursor, published, data, flags>>
writerVars == <<pc, slot, val, p, ext>>
readerVars == <<rpc, rloc, held>>
histVars == <<handles, orig, failed>>
callVars == <<err, dropLog, out>>
lifeVars == <<torn, doubleDrop, leaked>>

\* ---- construction --------------------------------------------------------

\* alloc_storage: cells uninitialised, flags zeroed
\* the finite sequences given to extend / alloc_extend
Seqs == UNION {[1..n -> Values] : n \in 0..MaxSeq}

\* alloc_extend: let mut first = None; for value in iter { ... }
\* st is "off" (no call yet), "on" (inside the loop), "done" (returned `first`)
\* or "panicked" (an alloc of the loop panicked and unwound the call)
ExtIdle == [st |-> "off", rest |-> <<>>, first |-> <<"none">>,
            seq |-> <<>>, start |-> 0, at |-> <<>>]
ExtBegin(seq, len) == [st |-> "on", rest |-> seq, first |-> <<"none">>,
                       seq |-> seq, start |-> len, at |-> <<>>]

\* an iterator that hands out the last element first
ExtNextLast(e) == e.rest[Len(e.rest)]

\* for value in iter: the iterator's next element
ExtNext(e) == Head(e.rest)

\* for value in iter { let idx = self.alloc(value): the next element is claimed at s
ExtClaimed(e, s) == [e EXCEPT !.rest = Tail(@), !.at = Append(@, s)]

\* the alloc of the loop panicked: the call unwinds and drops the rest of iter
ExtPanicked(e) == [e EXCEPT !.st = "panicked", !.rest = <<>>]

\* if first.is_none() { first = Some(idx); }
ExtFirst(e, s) == IF e.first = <<"none">> THEN [e EXCEPT !.first = <<"some", s>>] ELSE e

AllocStorageData == [i \in Pos |-> NoVal]
AllocStorageFlags == [i \in Pos |-> FALSE]

\* with_capacity(capacity): cap = capacity.max(1)
WithCapacity(capacity) == Max(capacity, 1)

Init ==
    /\ cap \in {WithCapacity(c) : c \in 0..MaxInitCap}
    /\ cursor = 0
    /\ published = 0
    /\ data = AllocStorageData
    /\ flags = AllocStorageFlags
    /\ pc = [t \in Threads |-> "idle"]
    /\ slot = [t \in Threads |-> 0]
    /\ val = [t \in Threads |-> NoVal]
    /\ p = [t \in Threads |-> 0]
    /\ rpc = "idle"
    /\ rloc = 0
    /\ held = <<>>
    /\ handles = [i \in Pos |-> 0]
    /\ orig = [i \in Pos |-> NoVal]
    /\ failed = FALSE
    /\ err = "none"
    /\ dropLog = <<>>
    /\ out = <<>>
    /\ torn = FALSE
    /\ doubleDrop = FALSE
    /\ leaked = FALSE
    /\ items = <<>>
    /\ ext = [t \in Threads |-> ExtIdle]

\* ---- the sequential Arena (arena.rs), a Vec<T> -----------------------------
\* Positions are 0-based, the sequence is 1-based.

\* alloc: index = items.len(); items.push(value); Idx::from_raw(index)
ArenaAlloc(its, v) == Append(its, v)
ArenaAllocIdx(its) == Len(its)

\* get: &self.items[idx], the slice index panics when idx >= len
ArenaGet(its, i) ==
    IF i < Len(its) THEN <<"ref", its[i + 1]>> ELSE <<"index out of bounds", NoVal>>

\* try_get: self.items.get(idx)
ArenaTryGet(its, i) == IF i < Len(its) THEN <<"some", its[i + 1]>> ELSE <<"none", NoVal>>

\* is_valid: idx.into_raw() < self.items.len()
ArenaIsValid(its, i) == i < Len(its)

\* len: self.items.len()
ArenaLen(its) == Len(its)

\* checkpoint: Checkpoint::from_len(self.items.len())
ArenaCheckpoint(its) == Len(its)

\* rollback: assert!(cp.len() <= self.items.len()); self.items.truncate(cp.len())
ArenaRollbackOk(its, cp) == cp <= Len(its)
ArenaRollback(its, cp) == IF ArenaRollbackOk(its, cp) THEN SubSeq(its, 1, cp) ELSE its

\* Vec::truncate(len) drops the tail items[len..] as one slice, and a slice
\* drops its elements from the first to the last
ArenaTruncateDrops(its, len) ==
    IF len >= Len(its) THEN <<>> ELSE [k \in 1..(Len(its) - len) |-> len + k - 1]

\* the destructor calls of rollback (none when the assertion fails), of reset
\* (Vec::clear) and of dropping the Arena (its Vec field is dropped)
ArenaRollbackDrops(its, cp) ==
    IF ArenaRollbackOk(its, cp) THEN ArenaTruncateDrops(its, cp) ELSE <<>>
ArenaResetDrops(its) == ArenaTruncateDrops(its, 0)
ArenaDropDrops(its) == ArenaTruncateDrops(its, 0)

\* reset: self.items.clear()
ArenaReset(its) == <<>>

\* drain: self.items.drain(..) yields every item in order and leaves none
ArenaDrain(its) == <<>>
ArenaDrained(its) == its

\* extend: self.items.extend(iter)
ArenaExtend(its, seq) == its \o seq

\* alloc_extend: start = len; extend; Some(Idx(start)) if anything was added
ArenaAllocExtend(its, seq) == IF Len(its \o seq) > Len(its) THEN <<"some", Len(its)>>
                              ELSE <<"none">>

\* *arena.get_mut(idx) = v: &mut self.items[idx]
ArenaGetMut(its, i, v) == IF i < Len(its) THEN [its EXCEPT ![i + 1] = v] ELSE its

AllIdle == \A t \in Threads : pc[t] = "idle"
\* &mut self: no writer and no reader holds a shared borrow
Exclusive ==
    /\ AllIdle
    /\ \A t \in Threads : ext[t].st # "on"
    /\ rpc = "idle"
    /\ ~torn

\* ---- alloc ---------------------------------------------------------------

\* a fetch_add whose increment is lost
FetchAddLost(c) == c

\* cursor.fetch_add(1, Relaxed): the new cursor value
FetchAdd(c) == c + 1

\* the bounds assertion off by one
SlotInBoundsOffByOne(s, c) == s <= c

\* an assertion that also turns the last slot away
SlotInBoundsBelowLast(s, c) == s + 1 < c

\* assert!(slot < self.cap, "arena full")
SlotInBounds(s, c) == s < c

\* let slot = self.cursor.fetch_add(1); assert!(slot < self.cap)
\* Inside alloc_extend / extend the value is the next element of the sequence,
\* and the sequential Arena was given the whole sequence when the call began.
AllocClaim(t, v) ==
    /\ pc[t] = "idle"
    /\ ~torn
    /\ cursor < MaxCursor
    /\ ext[t].st = "on" => ext[t].rest # <<>> /\ v = ExtNext(ext[t])
    /\ cursor' = FetchAdd(cursor)
    /\ IF SlotInBounds(cursor, cap)
       THEN /\ pc' = [pc EXCEPT ![t] = "write"]
            /\ slot' = [slot EXCEPT ![t] = cursor]
            /\ val' = [val EXCEPT ![t] = v]
            /\ err' = "none"
            /\ ext' = IF ext[t].st = "on"
                      THEN [ext EXCEPT ![t] = ExtClaimed(@, cursor)] ELSE ext
       ELSE /\ err' = "arena full"
            /\ ext' = IF ext[t].st = "on"
                      THEN [ext EXCEPT ![t] = ExtPanicked(@)] ELSE ext
            /\ UNCHANGED <<pc, slot, val>>
    /\ dropLog' = <<>>
    /\ out' = <<>>
    /\ items' = IF ext[t].st = "on" THEN items ELSE ArenaAlloc(items, v)
    /\ failed' = (failed \/ ~SlotInBounds(cursor, cap))
    /\ UNCHANGED <<cap, published, data, flags, p, readerVars, handles, orig, lifeVars>>

\* the write goes to the position before the re-read cursor, not to `slot`
AllocWriteAtCursor(t) ==
    /\ pc[t] = "write"
    /\ data' = [data EXCEPT ![cursor - 1] = val[t]]
    /\ leaked' = (leaked \/ data[cursor - 1] # NoVal)
    /\ pc' = [pc EXCEPT ![t] = "flag"]
    /\ UNCHANGED <<cap, cursor, published, flags, slot, val, p,
                   readerVars, histVars, callVars, torn, doubleDrop, items, ext>>

\* the write goes one position below `slot`
AllocWriteBelowSlot(t) ==
    /\ pc[t] = "write"
    /\ data' = [data EXCEPT ![Max(slot[t] - 1, 0)] = val[t]]
    /\ leaked' = (leaked \/ data[Max(slot[t] - 1, 0)] # NoVal)
    /\ pc' = [pc EXCEPT ![t] = "flag"]
    /\ UNCHANGED <<cap, cursor, published, flags, slot, val, p,
                   readerVars, histVars, callVars, torn, doubleDrop, items, ext>>

\* self.data.add(slot).write(value)
AllocWrite(t) ==
    /\ pc[t] = "write"
    /\ data' = [data EXCEPT ![slot[t]] = val[t]]
    /\ leaked' = (leaked \/ data[slot[t]] # NoVal)
    /\ pc' = [pc EXCEPT ![t] = "flag"]
    /\ UNCHANGED <<cap, cursor, published, flags, slot, val, p,
                   readerVars, histVars, callVars, torn, doubleDrop, items, ext>>

\* (*self.flags.add(slot)).store(true, Release)
AllocSetFlag(t) ==
    /\ pc[t] = "flag"
    /\ flags' = [flags EXCEPT ![slot[t]] = TRUE]
    /\ pc' = [pc EXCEPT ![t] = "load"]
    /\ UNCHANGED <<cap, cursor, published, data, slot, val, p,
                   readerVars, histVars, callVars, lifeVars, items, ext>>

\* ---- advance_published ---------------------------------------------------

\* the loop exits as soon as the boundary reaches the slot
AdvanceDoneEarly(b, s) == b >= s

\* if p > slot { break; }
AdvanceDone(b, s) == b > s

\* let p = published.load(Acquire); p > slot: break and return Idx(slot)
AdvLoad(t) ==
    /\ pc[t] = "load"
    /\ IF AdvanceDone(published, slot[t])
       THEN /\ pc' = [pc EXCEPT ![t] = "idle"]
            /\ handles' = [handles EXCEPT ![slot[t]] = IF @ < 2 THEN @ + 1 ELSE @]
            /\ orig' = [orig EXCEPT ![slot[t]] = val[t]]
            /\ failed' = failed
            /\ slot' = [slot EXCEPT ![t] = 0]
            /\ val' = [val EXCEPT ![t] = NoVal]
            /\ p' = [p EXCEPT ![t] = 0]
            /\ ext' = IF ext[t].st = "on"
                      THEN [ext EXCEPT ![t] = ExtFirst(@, slot[t])] ELSE ext
       ELSE /\ pc' = [pc EXCEPT ![t] = "check"]
            /\ p' = [p EXCEPT ![t] = published]
            /\ UNCHANGED <<slot, val, histVars, ext>>
    /\ UNCHANGED <<arenaVars, readerVars, callVars, lifeVars, items>>

\* the readiness flag is not consulted
ReadyAlways(f, b) == TRUE

\* let ready = flags[p].load(Acquire)
Ready(f, b) == f[b]

\* if !ready { spin_loop(); continue; }
AdvCheck(t) ==
    /\ pc[t] = "check"
    /\ IF Ready(flags, p[t])
       THEN /\ pc' = [pc EXCEPT ![t] = "cas"]
            /\ p' = p
       ELSE /\ pc' = [pc EXCEPT ![t] = "load"]
            /\ p' = [p EXCEPT ![t] = 0]
    /\ UNCHANGED <<arenaVars, slot, val, readerVars, histVars, callVars, lifeVars, items, ext>>

\* a compare-and-swap that moves the boundary on by two
CasNewSkips(b) == b + 2

\* the value compare_exchange_weak stores on success
CasNew(b) == b + 1

\* a plain store of p + 1, whatever the boundary has become since the load
AdvCasStores(t) ==
    /\ pc[t] = "cas"
    /\ published' = CasNew(p[t])
    /\ pc' = [pc EXCEPT ![t] = "load"]
    /\ p' = [p EXCEPT ![t] = 0]
    /\ UNCHANGED <<cap, cursor, data, flags, slot, val,
                   readerVars, histVars, callVars, lifeVars, items, ext>>

\* published.compare_exchange_weak(p, p + 1, Release, Relaxed) succeeds
AdvCasOk(t) ==
    /\ pc[t] = "cas"
    /\ published = p[t]
    /\ published' = CasNew(p[t])
    /\ pc' = [pc EXCEPT ![t] = "load"]
    /\ p' = [p EXCEPT ![t] = 0]
    /\ UNCHANGED <<cap, cursor, data, flags, slot, val,
                   readerVars, histVars, callVars, lifeVars, items, ext>>

\* compare_exchange_weak fails: the boundary moved, or a spurious failure
AdvCasFail(t) ==
    /\ pc[t] = "cas"
    /\ pc' = [pc EXCEPT ![t] = "load"]
    /\ p' = [p EXCEPT ![t] = 0]
    /\ UNCHANGED <<arenaVars, slot, val, readerVars, histVars, callVars, lifeVars, items, ext>>

WriterStep(t) ==
    \/ \E v \in Values : AllocClaim(t, v)
    \/ AllocWrite(t)
    \/ AllocSetFlag(t)
    \/ AdvLoad(t)
    \/ AdvCheck(t)
    \/ AdvCasOk(t)
    \/ AdvCasFail(t)

\* ---- read accessors (&self) ----------------------------------------------
\* Each accessor acquire-loads the boundary once (argument b) and compares.

\* a get that tests the position against the capacity, not the boundary
GetWithinCapacity(b, i) ==
    IF i < cap THEN <<"ref", data[i]>> ELSE <<"index out of bounds", NoVal>>

\* get: assert!(i < published, "index out of bounds"); &*data.add(i)
Get(b, i) == IF i < b THEN <<"ref", data[i]>> ELSE <<"index out of bounds", NoVal>>

\* try_get: Some(&data[i]) if i < published, else None
TryGet(b, i) == IF i < b THEN <<"some", data[i]>> ELSE <<"none", NoVal>>

\* is_valid: idx.into_raw() < published
IsValid(b, i) == i < b

\* len: published.load(Acquire)
LenOf(b) == b

\* checkpoint: Checkpoint::from_len(published.load(Acquire))
Checkpoint(b) == b

\* a view that lists the published positions from the highest down
AsSliceReversed(b) == IF b = 0 THEN <<>> ELSE [k \in 1..b |-> data[b - k]]

\* as_slice: from_raw_parts(data, len), the empty slice when len == 0
AsSlice(b) == IF b = 0 THEN <<>> ELSE [k \in 1..b |-> data[k - 1]]

\* first step of every accessor: self.published.load(Acquire)
ReadLoad ==
    /\ rpc = "idle"
    /\ ~torn
    /\ rpc' = "loaded"
    /\ rloc' = published
    /\ UNCHANGED <<held, arenaVars, writerVars, histVars, callVars, lifeVars, items>>

\* a read that returns only once every claimed slot is published
ReadReturnWaits ==
    /\ rpc = "loaded"
    /\ cursor = published
    /\ rpc' = "idle"
    /\ rloc' = 0
    /\ UNCHANGED <<held, arenaVars, writerVars, histVars, callVars, lifeVars, items>>

\* second step of every accessor: the comparison with the loaded boundary and
\* the return; what accessor `op` returns for handle h is op(rloc, h) above
ReadReturn ==
    /\ rpc = "loaded"
    /\ rpc' = "idle"
    /\ rloc' = 0
    /\ UNCHANGED <<held, arenaVars, writerVars, histVars, callVars, lifeVars, items>>

ReaderStep ==
    \/ ReadLoad
    \/ ReadReturn

\* ---- alloc_extend and extend ---------------------------------------------

\* alloc_extend(iter) begins: first = None, nothing claimed yet.  The sequential
\* Arena is given the same call and takes the whole sequence at once.  `noted`
\* is what the caller knows len() to be when it calls (a sequential caller
\* knows it; it plays no part in the call).
AllocExtendStart(t, seq, noted) ==
    /\ pc[t] = "idle"
    /\ ext[t].st # "on"
    /\ ~torn
    /\ ext' = [ext EXCEPT ![t] = ExtBegin(seq, noted)]
    /\ items' = ArenaExtend(items, seq)
    /\ err' = "none"
    /\ dropLog' = <<>>
    /\ out' = <<>>
    /\ UNCHANGED <<arenaVars, pc, slot, val, p, readerVars, histVars, lifeVars>>

\* for value in iter { let idx = self.alloc(value); ... }: the next alloc call
AllocExtendClaim(t) ==
    /\ ext[t].st = "on"
    /\ \E v \in Values : AllocClaim(t, v)

\* the iterator is exhausted: alloc_extend returns `first`
AllocExtendReturn(t) ==
    /\ pc[t] = "idle"
    /\ ext[t].st = "on"
    /\ ext[t].rest = <<>>
    /\ ext' = [ext EXCEPT ![t].st = "done"]
    /\ UNCHANGED <<arenaVars, pc, slot, val, p, readerVars, histVars, callVars,
                   lifeVars, items>>

\* Extend::extend(&mut self, iter): the same loop, its handles discarded
Extend(seq) ==
    /\ Exclusive
    /\ AllocExtendStart(Runner, seq, LenOf(published))

\* ---- exclusive operations (&mut self) ------------------------------------

\* history: handles at positions >= n are stale
DropHandles(f, n) == [i \in Pos |-> IF i >= n THEN 0 ELSE f[i]]
DropOrig(f, n) == [i \in Pos |-> IF i >= n THEN NoVal ELSE f[i]]

\* a reversed range that stops one position early and never visits a
RevRangeShort(a, b) == IF a + 1 >= b THEN <<>> ELSE [k \in 1..(b - a - 1) |-> b - k]

\* (a..b).rev(): the positions b-1, b-2, ..., a in the order the loop visits them
RevRange(a, b) == IF a >= b THEN <<>> ELSE [k \in 1..(b - a) |-> b - k]

\* the positions a loop over `order` visits
Visited(order) == {order[k] : k \in 1..Len(order)}

\* destructor calls made in the opposite order, lowest position first
DropInPlaceAscending(order) ==
    /\ dropLog' = [k \in 1..Len(order) |-> order[Len(order) + 1 - k]]
    /\ doubleDrop' = (doubleDrop \/ \E k \in 1..Len(order) :
                          \/ data[order[k]] = NoVal
                          \/ \E j \in 1..(k - 1) : order[j] = order[k])

\* drop_in_place on the cells of `order`, one after the other; running it on a
\* cell that holds no live value (never written, already dropped or moved out)
\* is a double drop
DropInPlace(order) ==
    /\ dropLog' = order
    /\ doubleDrop' = (doubleDrop \/ \E k \in 1..Len(order) :
                          \/ data[order[k]] = NoVal
                          \/ \E j \in 1..(k - 1) : order[j] = order[k])

\* a loop that also destroys the cell just below the checkpoint
DropRangePastCheckpoint(n, current) ==
    /\ DropInPlace(RevRange(Max(n - 1, 0), current))
    /\ data' = [i \in Pos |-> IF i \in Visited(RevRange(Max(n - 1, 0), current))
                              THEN NoVal ELSE data[i]]
    /\ flags' = [i \in Pos |-> IF i \in Visited(RevRange(Max(n - 1, 0), current))
                               THEN FALSE ELSE flags[i]]

\* a loop that destroys the cells but leaves their readiness flags set
DropRangeKeepsFlags(n, current) ==
    /\ DropInPlace(RevRange(n, current))
    /\ data' = [i \in Pos |-> IF i \in Visited(RevRange(n, current))
                              THEN NoVal ELSE data[i]]
    /\ flags' = flags

\* for slot in (n..current).rev() { drop_in_place(data[slot]); flags[slot] = false }
DropRange(n, current) ==
    /\ DropInPlace(RevRange(n, current))
    /\ data' = [i \in Pos |-> IF i \in Visited(RevRange(n, current))
                              THEN NoVal ELSE data[i]]
    /\ flags' = [i \in Pos |-> IF i \in Visited(RevRange(n, current))
                               THEN FALSE ELSE flags[i]]

\* an assertion that also rejects the checkpoint of the current length
RollbackOkStrict(cp, current) == cp < current

\* assert!(cp.len() <= current, "checkpoint {} beyond current length {current}")
RollbackOk(cp, current) == cp <= current

\* a rollback that resets the boundary but leaves the cursor where it was
RollbackKeepsCursor(cp) ==
    /\ Exclusive
    /\ IF RollbackOk(cp, published)
       THEN /\ DropRange(cp, published)
            /\ published' = cp
            /\ cursor' = cursor
            /\ handles' = DropHandles(handles, cp)
            /\ orig' = DropOrig(orig, cp)
            /\ failed' = FALSE
            /\ err' = "none"
            /\ out' = <<>>
       ELSE /\ err' = "checkpoint beyond current length"
            /\ dropLog' = <<>>
            /\ out' = <<>>
            /\ UNCHANGED <<published, cursor, data, flags, histVars, doubleDrop>>
    /\ items' = ArenaRollback(items, cp)
    /\ UNCHANGED <<cap, writerVars, readerVars, torn, leaked>>

\* rollback(cp): assert!(cp.len() <= current); drop the suffix; reset both counters
Rollback(cp) ==
    /\ Exclusive
    /\ IF RollbackOk(cp, published)
       THEN /\ DropRange(cp, published)
            /\ published' = cp
            /\ cursor' = cp
            /\ handles' = DropHandles(handles, cp)
            /\ orig' = DropOrig(orig, cp)
            /\ failed' = FALSE
            /\ err' = "none"
            /\ out' = <<>>
       ELSE /\ err' = "checkpoint beyond current length"
            /\ dropLog' = <<>>
            /\ out' = <<>>
            /\ UNCHANGED <<published, cursor, data, flags, histVars, doubleDrop>>
    /\ items' = ArenaRollback(items, cp)
    /\ UNCHANGED <<cap, writerVars, readerVars, torn, leaked>>

\* a reset that sets the boundary to zero but leaves the cursor where it was
ResetKeepsCursor ==
    /\ Exclusive
    /\ DropRange(0, published)
    /\ published' = 0
    /\ cursor' = cursor
    /\ handles' = DropHandles(handles, 0)
    /\ orig' = DropOrig(orig, 0)
    /\ failed' = FALSE
    /\ err' = "none"
    /\ out' = <<>>
    /\ items' = ArenaReset(items)
    /\ UNCHANGED <<cap, writerVars, readerVars, torn, leaked>>

\* a reset whose loop stops above position 0
ResetSkipsFirst ==
    /\ Exclusive
    /\ DropRange(1, published)
    /\ published' = 0
    /\ cursor' = 0
    /\ handles' = DropHandles(handles, 0)
    /\ orig' = DropOrig(orig, 0)
    /\ failed' = FALSE
    /\ err' = "none"
    /\ out' = <<>>
    /\ items' = ArenaReset(items)
    /\ UNCHANGED <<cap, writerVars, readerVars, torn, leaked>>

\* reset(): drop everything published, counters to zero
Reset ==
    /\ Exclusive
    /\ DropRange(0, published)
    /\ published' = 0
    /\ cursor' = 0
    /\ handles' = DropHandles(handles, 0)
    /\ orig' = DropOrig(orig, 0)
    /\ failed' = FALSE
    /\ err' = "none"
    /\ out' = <<>>
    /\ items' = ArenaReset(items)
    /\ UNCHANGED <<cap, writerVars, readerVars, torn, leaked>>

\* a grow_to without the early return, which takes min_capacity as it comes
GrowToAlways(min_capacity) ==
    /\ Exclusive
    /\ data' = [i \in Pos |-> IF i < published THEN data[i] ELSE AllocStorageData[i]]
    /\ flags' = [i \in Pos |-> IF i < published THEN flags[i] ELSE AllocStorageFlags[i]]
    /\ cap' = min_capacity
    /\ leaked' = (leaked \/ \E i \in Pos : i >= published /\ data[i] # NoVal)
    /\ err' = "none"
    /\ dropLog' = <<>>
    /\ out' = <<>>
    /\ UNCHANGED <<cursor, published, writerVars, readerVars, histVars,
                   torn, doubleDrop, items>>

\* a grow_to that copies one cell fewer than are published
GrowToCopiesShort(min_capacity) ==
    /\ Exclusive
    /\ IF min_capacity <= cap
       THEN UNCHANGED <<cap, data, flags, leaked>>
       ELSE /\ data' = [i \in Pos |-> IF i < published - 1 THEN data[i]
                                      ELSE AllocStorageData[i]]
            /\ flags' = [i \in Pos |-> IF i < published - 1 THEN flags[i]
                                       ELSE AllocStorageFlags[i]]
            /\ cap' = min_capacity
            /\ leaked' = (leaked \/ \E i \in Pos : i >= published /\ data[i] # NoVal)
    /\ err' = "none"
    /\ dropLog' = <<>>
    /\ out' = <<>>
    /\ UNCHANGED <<cursor, published, writerVars, readerVars, histVars,
                   torn, doubleDrop, items>>

\* grow_to(min_capacity): new zeroed storage, published cells and flags copied,
\* old storage released without running a destructor
GrowTo(min_capacity) ==
    /\ Exclusive
    /\ IF min_capacity <= cap
       THEN UNCHANGED <<cap, data, flags, leaked>>
       ELSE /\ data' = [i \in Pos |-> IF i < published THEN data[i]
                                      ELSE AllocStorageData[i]]
            /\ flags' = [i \in Pos |-> IF i < published THEN flags[i]
                                       ELSE AllocStorageFlags[i]]
            /\ cap' = min_capacity
            /\ leaked' = (leaked \/ \E i \in Pos : i >= published /\ data[i] # NoVal)
    /\ err' = "none"
    /\ dropLog' = <<>>
    /\ out' = <<>>
    /\ UNCHANGED <<cursor, published, writerVars, readerVars, histVars,
                   torn, doubleDrop, items>>

\* The machine word, scaled down: Layout::array::<AtomicBool>(cap) in
\* alloc_storage accepts no more than isize::MAX flags, which is the largest
\* capacity an arena can have, and usize::MAX is 2 * isize::MAX + 1.
IsizeMax == MaxCap
UsizeMax == 2 * IsizeMax + 1

\* usize::checked_mul: None when the product does not fit the word
CheckedMul(a, b) == IF a * b > UsizeMax THEN <<"none", 0>> ELSE <<"some", a * b>>

\* grow(): grow_to(cap.checked_mul(2).expect("capacity overflow")); a doubled
\* capacity that alloc_storage cannot lay out is left out of the model
Grow ==
    /\ 2 * cap <= IsizeMax
    /\ IF CheckedMul(cap, 2)[1] = "none"
       THEN /\ Exclusive
            /\ err' = "capacity overflow"
            /\ dropLog' = <<>>
            /\ out' = <<>>
            /\ UNCHANGED <<arenaVars, writerVars, readerVars, histVars, lifeVars, items>>
       ELSE GrowTo(CheckedMul(cap, 2)[2])

\* let mut items = Vec::with_capacity(current);
\* for slot in 0..current { items.push(data[slot].read()) }; items.into_iter()
DrainYield(current) == IF current = 0 THEN <<>> ELSE [k \in 1..current |-> data[k - 1]]

\* a drain that moves the values out but leaves both counters where they were
DrainMoveKeepsLength ==
    /\ data' = [i \in Pos |-> IF i < published THEN NoVal ELSE data[i]]
    /\ flags' = [i \in Pos |-> IF i < published THEN FALSE ELSE flags[i]]
    /\ UNCHANGED <<published, cursor>>

\* a drain that puts the boundary back to zero but not the cursor
DrainMoveKeepsCursor ==
    /\ data' = [i \in Pos |-> IF i < published THEN NoVal ELSE data[i]]
    /\ flags' = [i \in Pos |-> IF i < published THEN FALSE ELSE flags[i]]
    /\ published' = 0
    /\ cursor' = cursor

\* a drain that moves the values out but leaves their readiness flags set
DrainMoveKeepsFlags ==
    /\ data' = [i \in Pos |-> IF i < published THEN NoVal ELSE data[i]]
    /\ flags' = flags
    /\ published' = 0
    /\ cursor' = 0

\* the read loop of drain: items.push(data[slot].read()); flags[slot] = false
\* for slot in 0..current, then both counters to zero
DrainMove ==
    /\ data' = [i \in Pos |-> IF i < published THEN NoVal ELSE data[i]]
    /\ flags' = [i \in Pos |-> IF i < published THEN FALSE ELSE flags[i]]
    /\ published' = 0
    /\ cursor' = 0

\* drain(): move every published value out, clear flags, counters to zero
Drain ==
    /\ Exclusive
    /\ DrainMove
    /\ handles' = DropHandles(handles, 0)
    /\ orig' = DropOrig(orig, 0)
    /\ failed' = FALSE
    /\ err' = "none"
    /\ dropLog' = <<>>
    /\ out' = DrainYield(published)
    /\ items' = ArenaDrain(items)
    /\ UNCHANGED <<cap, writerVars, readerVars, lifeVars>>

\* a get_mut whose assertion lets the position equal to the length through
GetMutRefInclusive(b, i) ==
    IF i <= b /\ i \in Pos THEN <<"ref", data[i]>> ELSE <<"index out of bounds", NoVal>>

\* get_mut: assert!(i < published, "index out of bounds"); &mut *data.add(i)
GetMutRef(b, i) == IF i < b THEN <<"ref", data[i]>> ELSE <<"index out of bounds", NoVal>>

\* try_get_mut: Some(&mut data[i]) if i < published, else None
TryGetMut(b, i) == IF i < b THEN <<"some", data[i]>> ELSE <<"none", NoVal>>

\* *arena.get_mut(idx) = v: assert!(i < published); write through the &mut
GetMut(i, v) ==
    /\ Exclusive
    /\ IF GetMutRef(published, i)[1] = "ref"
       THEN /\ data' = [data EXCEPT ![i] = v]
            /\ orig' = [orig EXCEPT ![i] = NoVal]
            /\ err' = "none"
       ELSE /\ err' = GetMutRef(published, i)[1]
            /\ UNCHANGED <<data, orig>>
    /\ dropLog' = <<>>
    /\ out' = <<>>
    /\ items' = ArenaGetMut(items, i, v)
    /\ UNCHANGED <<cap, cursor, published, flags, writerVars, readerVars, handles, failed,
                   lifeVars>>

\* drop(): drop_in_place on every published cell in reverse, then release the
\* storage without running a destructor; a value still live in the released
\* storage is leaked.  The arena is gone afterwards: the model keeps the empty
\* arena in its place and allows no further call.  The sequential Arena is
\* dropped with it.
Teardown ==
    /\ Exclusive
    /\ DropInPlace(RevRange(0, published))
    /\ leaked' = (leaked \/ \E i \in Pos :
                      data[i] # NoVal /\ i \notin Visited(RevRange(0, published)))
    /\ torn' = TRUE
    /\ data' = AllocStorageData
    /\ flags' = AllocStorageFlags
    /\ published' = 0
    /\ cursor' = 0
    /\ handles' = DropHandles(handles, 0)
    /\ orig' = DropOrig(orig, 0)
    /\ failed' = FALSE
    /\ err' = "none"
    /\ out' = <<>>
    /\ items' = <<>>
    /\ UNCHANGED <<cap, writerVars, readerVars>>

\* into_iter(mut self): self.drain(), then self is dropped with published == 0
IntoIter ==
    /\ Exclusive
    /\ DrainMove
    /\ dropLog' = <<>>
    /\ out' = DrainYield(published)
    /\ leaked' = (leaked \/ \E i \in Pos : i >= published /\ data[i] # NoVal)
    /\ torn' = TRUE
    /\ handles' = DropHandles(handles, 0)
    /\ orig' = DropOrig(orig, 0)
    /\ failed' = FALSE
    /\ err' = "none"
    /\ items' = <<>>
    /\ UNCHANGED <<cap, writerVars, readerVars, doubleDrop>>

ExclusiveStep ==
    \/ \E cp \in 0..MaxCap : Rollback(cp)
    \/ Reset
    \/ Grow
    \/ \E m \in 0..MaxCap : GrowTo(m)
    \/ Drain
    \/ \E i \in 0..MaxCap : \E v \in Values : GetMut(i, v)
    \/ Teardown
    \/ IntoIter

Next ==
    \/ \E t \in Threads : WriterStep(t)
    \/ ReaderStep
    \/ ExclusiveStep

Spec == Init /\ [][Next]_vars

\* ---- specifications with fairness ----------------------------------------

\* the steps of an alloc call already under way
AllocProgress(t) ==
    \/ AllocWrite(t)
    \/ AllocSetFlag(t)
    \/ AdvLoad(t)
    \/ AdvCheck(t)
    \/ AdvCasOk(t)
    \/ AdvCasFail(t)

\* alloc returns Idx::from_raw(slot): the break of advance_published
AllocReturn(t) == AdvLoad(t) /\ AdvanceDone(published, slot[t])

\* every writer thread keeps being scheduled, and a compare_exchange_weak that
\* is retried for ever on an unchanged boundary eventually succeeds
FairSpec ==
    /\ Spec
    /\ \A t \in Threads : WF_vars(AllocProgress(t)) /\ SF_vars(AdvCasOk(t))

\* only the last writer thread is scheduled fairly; the others may stall anywhere
StallSpec ==
    /\ Spec
    /\ WF_vars(AllocProgress(Runner)) /\ SF_vars(AdvCasOk(Runner))

\* ---- single-threaded use, side by side with the sequential Arena ---------
\* One thread makes one call at a time; it stores a value only while the Arena
\* holds fewer values than the FastArena's capacity.  grow_to, which the Arena
\* has no counterpart of, lets the history run at every capacity.

SeqAlloc(v) ==
    /\ rpc = "idle"
    /\ ArenaLen(items) < cap
    /\ AllocClaim(Runner, v)

SeqRead ==
    /\ AllIdle
    /\ ReaderStep

SeqNext ==
    \/ \E v \in Values : SeqAlloc(v)
    \/ AllocProgress(Runner)
    \/ SeqRead
    \/ \E cp \in 0..MaxCap : Rollback(cp)
    \/ Reset
    \/ Drain
    \/ \E m \in 0..MaxCap : GrowTo(m)
    \/ Teardown

SeqSpec == Init /\ [][SeqNext]_vars

\* ---- more alloc calls than free slots ---------------------------------------
\* One thread fills the arena up to some length; then every thread makes one
\* alloc call, threads numbered in the order they call.  The call is made as
\* alloc_extend of the one-element sequence, which is alloc(v) and the return
\* of its handle, so that its outcome is on record in ext.  The first call is
\* made while the cursor leaves room for all of them below MaxCursor.  Every
\* thread keeps being scheduled.

RaceFill(v) ==
    /\ \A t \in Threads : ext[t].st = "off"
    /\ SeqAlloc(v)

RaceCall(t, v) ==
    /\ ext[t].st = "off"
    /\ \A u \in Threads : u < t => ext[u].st # "off"
    /\ (t = 1) => (AllIdle /\ cursor + NThreads <= MaxCursor)
    /\ AllocExtendStart(t, <<v>>, LenOf(published))

RaceNext ==
    \/ \E v \in Values : RaceFill(v)
    \/ \E t \in Threads : \E v \in Values : RaceCall(t, v)
    \/ \E t \in Threads : AllocExtendClaim(t)
    \/ \E t \in Threads : AllocProgress(t)
    \/ \E t \in Threads : AllocExtendReturn(t)

RaceSpec ==
    /\ Init
    /\ [][RaceNext]_vars
    /\ \A t \in Threads :
          /\ WF_vars(\E v \in Values : RaceCall(t, v))
          /\ WF_vars(AllocExtendClaim(t))
          /\ WF_vars(AllocProgress(t))
          /\ SF_vars(AdvCasOk(t))
          /\ WF_vars(AllocExtendReturn(t))

\* ---- a concurrent allocation phase -------------------------------------------
\* From the empty arena on, threads only allocate and read: no &mut call.

PhaseNext ==
    \/ \E t \in Threads : WriterStep(t)
    \/ ReaderStep

PhaseSpec == Init /\ [][PhaseNext]_vars

\* ---- a handle kept across rollback and reset --------------------------------
\* Single-threaded use in which the caller keeps a copy of one handle it was
\* given (Idx is Copy and holds nothing but the position).

KeepHandle(i) ==
    /\ ~torn
    /\ held = <<>>
    /\ handles[i] > 0
    /\ orig[i] # NoVal
    /\ held' = <<i, orig[i]>>
    /\ UNCHANGED <<arenaVars, writerVars, rpc, rloc, histVars, callVars, lifeVars, items>>

StaleNext ==
    \/ \E v \in Values : SeqAlloc(v)
    \/ AllocProgress(Runner)
    \/ SeqRead
    \/ \E i \in Pos : KeepHandle(i)
    \/ \E cp \in 0..MaxCap : Rollback(cp)
    \/ Reset
    \/ \E m \in 0..MaxCap : GrowTo(m)

StaleSpec == Init /\ [][StaleNext]_vars

\* ---- bulk insertion by one thread -----------------------------------------
\* One thread makes one call at a time: extend and alloc_extend with any
\* sequence, rollback, reset and grow_to.

BulkAllocExtend(seq) ==
    /\ AllIdle
    /\ rpc = "idle"
    /\ AllocExtendStart(Runner, seq, LenOf(published))

BulkNext ==
    \/ \E seq \in Seqs : Extend(seq)
    \/ \E seq \in Seqs : BulkAllocExtend(seq)
    \/ AllocExtendClaim(Runner)
    \/ AllocProgress(Runner)
    \/ AllocExtendReturn(Runner)
    \/ \E cp \in 0..MaxCap : Rollback(cp)
    \/ Reset
    \/ \E m \in 0..MaxCap : GrowTo(m)

BulkSpec == Init /\ [][BulkNext]_vars

\* ---- concurrent alloc_extend on a fresh arena ------------------------------
\* Every thread calls alloc_extend at most once, and the sequences together
\* hold no more elements than the capacity, which is chosen before the first
\* call.  The threads are numbered in the order their calls begin.

TotalLen == Cardinality({tk \in Threads \X (1..MaxSeq) : tk[2] <= Len(ext[tk[1]].seq)})

ConcAllocExtend(t, seq) ==
    /\ ext[t].st = "off"
    /\ \A u \in Threads : u < t => ext[u].st # "off"
    /\ TotalLen + Len(seq) <= cap
    /\ AllocExtendStart(t, seq, 0)

ConcGrowTo(m) ==
    /\ \A t \in Threads : ext[t].st = "off"
    /\ GrowTo(m)

ConcNext ==
    \/ \E t \in Threads : \E seq \in Seqs : ConcAllocExtend(t, seq)
    \/ \E t \in Threads : AllocExtendClaim(t)
    \/ \E t \in Threads : AllocProgress(t)
    \/ \E t \in Threads : AllocExtendReturn(t)
    \/ \E m \in 0..MaxCap : ConcGrowTo(m)

ConcSpec == Init /\ [][ConcNext]_vars

\* ---- properties ----------------------------------------------------------

NumHandles == Cardinality({i \in Pos : handles[i] >= 1})
                + Cardinality({i \in Pos : handles[i] >= 2})

\* C1: concurrent alloc calls return handles with pairwise distinct positions,
\* and once every call has returned len() is the number of successful allocations.
C1_UniqueHandlesAndLength ==
    /\ \A i \in Pos : handles[i] <= 1
    /\ AllIdle => LenOf(published) = NumHandles

C1_Witness ==
    /\ AllIdle
    /\ cursor <= cap
    /\ handles[0] = 1 /\ handles[1] = 1
    /\ LenOf(published) = 2

\* C2: get(h) returns the value given to the alloc call that returned h, for every
\* h below the boundary the reading thread loaded, while the slot has neither been
\* removed nor overwritten through get_mut.
C2_GetReturnsAllocatedValue ==
    \A i \in Pos :
        (handles[i] > 0 /\ orig[i] # NoVal) =>
            /\ i < published => Get(published, i) = <<"ref", orig[i]>>
            /\ (rpc = "loaded" /\ i < rloc) => Get(rloc, i) = <<"ref", orig[i]>>

C2_Witness ==
    /\ rpc = "loaded" /\ rloc = 2
    /\ handles[0] = 1 /\ handles[1] = 1
    /\ orig[0] = 1 /\ orig[1] = 2
    /\ Get(rloc, 1) = <<"ref", 2>>
    /\ \E t \in Threads : pc[t] = "flag"

\* C3: every position below the published boundary is written and flagged, no
\* claimed-but-unwritten slot is below it, and while allocs run the boundary
\* moves only by one, past a position whose flag is set.
C3_PublishedInitialised ==
    /\ \A i \in Pos : i < published => (data[i] # NoVal /\ flags[i])
    /\ \A t \in Threads :
          /\ pc[t] \in {"write", "flag"} => slot[t] >= published
          /\ pc[t] \in {"load", "check", "cas"} => data[slot[t]] = val[t]

C3_BoundaryStep ==
    (~AllIdle /\ published' # published) =>
        /\ published' = published + 1
        /\ flags[published]
        /\ data[published] # NoVal

C3_GapFreeBoundary == []C3_PublishedInitialised /\ [][C3_BoundaryStep]_vars

C3_Witness ==
    /\ published = 1
    /\ \E t, u \in Threads :
          /\ pc[t] = "write" /\ slot[t] = 1
          /\ pc[u] = "check" /\ slot[u] = 2 /\ p[u] = 1

\* C4: published <= cursor <= capacity in every reachable state.
C4_CursorWithinCapacity == published <= cursor /\ cursor <= cap

\* C5: under fair scheduling every alloc call that has started returns (or has
\* failed at once with "arena full"): no call spins for ever.
C5_AllocTerminates ==
    \A t \in Threads : (pc[t] # "idle") ~> (pc[t] = "idle")

\* the threads with an alloc call in flight
InFlight == {t \in Threads : pc[t] # "idle"}

\* every claimed, unpublished position below the capacity belongs to a call in flight
NoOrphanSlot ==
    \A i \in Pos : (published <= i /\ i < cursor /\ i < cap) =>
        \E t \in Threads : pc[t] # "idle" /\ slot[t] = i

\* C6: lock-freedom: whenever a thread that keeps taking steps has an alloc in
\* flight, one of the alloc calls in flight returns, even if the other threads
\* are stalled between claiming a slot and setting its readiness flag.
C6_LockFree ==
    \A S \in SUBSET Threads :
        (Runner \in S /\ InFlight = S /\ NoOrphanSlot)
            ~> (\E t \in S : pc[t] = "idle")

\* C7: a handle alloc has returned is published: is_valid holds for it and
\* try_get finds the allocated value, from the return on, until a rollback,
\* reset or drain removes it.
C7_ReturnedHandlePublished ==
    \A i \in Pos :
        handles[i] > 0 =>
            /\ IsValid(published, i)
            /\ TryGet(published, i)[1] = "some"
            /\ orig[i] # NoVal => TryGet(published, i)[2] = orig[i]

C7_Witness ==
    \E t \in Threads :
        /\ pc[t] = "idle"
        /\ handles[1] = 1 /\ orig[1] = 2
        /\ published = 2
        /\ \E u \in Threads : pc[u] \in {"load", "check", "cas"} /\ slot[u] = 0

\* C8: the read accessors are wait-free: the two steps of a read (load the
\* boundary, compare and return) can each be taken whatever the writers are
\* doing, so a read ends after two steps of its own.
C8_ReadsWaitFree ==
    /\ rpc = "idle" /\ ~torn => ENABLED ReadLoad
    /\ rpc = "loaded" => ENABLED ReadReturn

C8_Witness ==
    /\ rpc = "loaded"
    /\ \E t, u \in Threads :
          /\ pc[t] = "flag" /\ slot[t] = 0
          /\ pc[u] = "check" /\ slot[u] = 1

\* C9: an alloc whose claimed position is >= capacity fails: no thread enters
\* the write, and length, capacity, values and flags are unchanged.
C9_FullStep ==
    \A t \in Threads : \A v \in Values :
        (AllocClaim(t, v) /\ cursor >= cap) =>
            /\ pc'[t] = "idle"
            /\ published' = published
            /\ cap' = cap
            /\ data' = data
            /\ flags' = flags
            /\ handles' = handles

C9_ArenaFullFails == [][C9_FullStep]_vars

C9_Witness ==
    /\ AllIdle
    /\ cap = 2 /\ published = 2 /\ cursor = 3
    /\ data[0] # NoVal /\ data[1] # NoVal /\ data[2] = NoVal

\* C10: when no alloc is in flight and len() < capacity(), an alloc succeeds and
\* claims the position len().
C10_SoloStep ==
    \A t \in Threads : \A v \in Values :
        (AllocClaim(t, v) /\ AllIdle /\ published < cap) =>
            /\ pc'[t] = "write"
            /\ slot'[t] = LenOf(published)

C10_SoloAllocTakesLen == [][C10_SoloStep]_vars

\* C11: a rollback(cp) with cp.length <= len() leaves len() == cp.length; every
\* handle below cp.length still gets the value it got before; every handle at or
\* above cp.length is invalid and get on it fails.
C11_RollbackStep ==
    \A cp \in 0..MaxCap :
        (Rollback(cp) /\ cp <= LenOf(published)) =>
            /\ LenOf(published') = cp
            /\ \A h \in 0..MaxCap : h < cp =>
                  /\ Get(published, h)[1] = "ref"
                  /\ Get(published, h)' = Get(published, h)
                  /\ handles[h] = 1 /\ orig[h] # NoVal =>
                         Get(published, h)' = <<"ref", orig[h]>>
            /\ \A h \in 0..MaxCap : h >= cp =>
                  /\ ~IsValid(published, h)'
                  /\ Get(published, h)'[1] = "index out of bounds"

C11_RollbackKeepsPrefix == [][C11_RollbackStep]_vars

\* a rollback has just destroyed a suffix and kept a non-empty prefix
C11_Witness ==
    /\ err = "none"
    /\ published >= 1
    /\ dropLog # <<>>
    /\ dropLog[Len(dropLog)] = published
    /\ handles[0] = 1 /\ data[0] = orig[0]

\* C12: a successful rollback(cp) runs the destructor of exactly the positions
\* cp.length .. old length - 1, each exactly once, and of no position below
\* cp.length.
C12_DestructorStep ==
    \A cp \in 0..MaxCap :
        (Rollback(cp) /\ cp <= LenOf(published)) =>
            /\ Visited(dropLog') = {i \in 0..MaxCap : cp <= i /\ i < LenOf(published)}
            /\ Len(dropLog') = LenOf(published) - cp
            /\ \A k \in 1..Len(dropLog') : ~(dropLog'[k] < cp)
            /\ \A i \in Pos : data'[i] = IF cp <= i /\ i < LenOf(published)
                                         THEN NoVal ELSE data[i]

C12_RollbackDestroysSuffix == [][C12_DestructorStep]_vars

\* a rollback has just destroyed two values above a kept one
C12_Witness ==
    /\ err = "none"
    /\ published = 1 /\ data[0] # NoVal
    /\ dropLog = <<2, 1>>
    /\ data[1] = NoVal /\ data[2] = NoVal

\* C13: whatever alloc, rollback, reset, grow, grow_to, drain and into_iter calls
\* are made, no destructor ever runs on a cell without a live value (destroyed
\* twice, or destroyed after drain moved it out), no live value is overwritten
\* or released with its storage, and between calls the live values are exactly
\* the published ones, so that teardown destroys every value still stored.
C13_DisposedExactlyOnce ==
    /\ ~doubleDrop
    /\ ~leaked
    /\ AllIdle => \A i \in Pos : (data[i] # NoVal) <=> (i < published)
    /\ torn => \A i \in Pos : data[i] = NoVal

\* teardown has just destroyed the two values of an arena that was grown
C13_Witness ==
    /\ torn
    /\ cap = 3
    /\ dropLog = <<1, 0>>

\* C14: rollback, reset and teardown destroy in strictly descending position
\* order: the first destructor call is at len() - 1, each later call is at the
\* position just below the one before, and the last is at cp.length (rollback)
\* or at 0 (reset, teardown).
C14_Descends(log, hi, lo) ==
    /\ hi > lo => Len(log) >= 1 /\ log[1] = hi - 1 /\ log[Len(log)] = lo
    /\ hi <= lo => log = <<>>
    /\ \A k \in 1..(Len(log) - 1) : log[k + 1] = log[k] - 1

C14_OrderStep ==
    /\ \A cp \in 0..MaxCap :
          (Rollback(cp) /\ cp <= LenOf(published)) =>
              C14_Descends(dropLog', LenOf(published), cp)
    /\ Reset => C14_Descends(dropLog', LenOf(published), 0)
    /\ Teardown => C14_Descends(dropLog', LenOf(published), 0)

C14_DescendingDestruction == [][C14_OrderStep]_vars

\* a reset has just destroyed three values
C14_Witness ==
    /\ ~torn
    /\ published = 0
    /\ dropLog = <<2, 1, 0>>

\* C15: a successful rollback(cp), and reset with cp.length = 0, leaves
\* cursor == published == cp.length whatever the cursor was; the alloc that
\* follows a rollback or reset that freed positions succeeds and claims the
\* lowest freed position, cp.length.
C15_CounterStep ==
    /\ \A cp \in 0..MaxCap :
          (Rollback(cp) /\ cp <= LenOf(published)) =>
              cursor' = cp /\ published' = cp
    /\ Reset => cursor' = 0 /\ published' = 0
    /\ \A t \in Threads : \A v \in Values :
          (AllocClaim(t, v) /\ dropLog # <<>>) =>
              /\ pc'[t] = "write"
              /\ slot'[t] = LenOf(published)
              /\ slot'[t] = dropLog[Len(dropLog)]

C15_RollbackResetsCursor == [][C15_CounterStep]_vars

\* a rollback to length 1 has just freed position 1 of a full arena
C15_Witness ==
    /\ ~torn
    /\ cap = 2
    /\ dropLog = <<1>>
    /\ cursor = 1 /\ published = 1

\* C16: rollback(cp) succeeds exactly when cp.length <= len(), whatever else
\* happened since the checkpoint was taken; otherwise it fails with the
\* "checkpoint beyond current length" panic, runs no destructor and leaves
\* len(), the cursor, the capacity, every value and every flag as they were.
C16_CheckStep ==
    \A cp \in 0..MaxCap :
        Rollback(cp) =>
            /\ (err' = "none") <=> (cp <= LenOf(published))
            /\ cp > LenOf(published) =>
                  /\ err' = "checkpoint beyond current length"
                  /\ dropLog' = <<>>
                  /\ LenOf(published') = LenOf(published)
                  /\ UNCHANGED <<cap, cursor, published, data, flags>>
                  /\ UNCHANGED <<handles, orig, doubleDrop, leaked, torn>>

C16_RollbackChecksLength == [][C16_CheckStep]_vars

\* a rollback beyond the length of an arena holding a value has just failed
C16_Witness ==
    /\ err = "checkpoint beyond current length"
    /\ published = 1 /\ data[0] # NoVal /\ handles[0] = 1

\* C17: between calls, for every handle position h the five accessors agree
\* with the one test h < len(): is_valid is true, try_get and try_get_mut are
\* present and get and get_mut return a reference exactly when h < len(), all
\* four giving the same stored value; otherwise get and get_mut fail with
\* "index out of bounds" and try_get and try_get_mut report absence.  A get_mut
\* call panics exactly when its handle fails the test.
C17_Agree(h) ==
    LET valid == h < LenOf(published) IN
    /\ IsValid(published, h) = valid
    /\ (TryGet(published, h)[1] = "some") = valid
    /\ (TryGetMut(published, h)[1] = "some") = valid
    /\ (Get(published, h)[1] = "ref") = valid
    /\ (GetMutRef(published, h)[1] = "ref") = valid
    /\ valid =>
          /\ Get(published, h)[2] # NoVal
          /\ TryGet(published, h)[2] = Get(published, h)[2]
          /\ TryGetMut(published, h)[2] = Get(published, h)[2]
          /\ GetMutRef(published, h)[2] = Get(published, h)[2]
    /\ ~valid =>
          /\ Get(published, h) = <<"index out of bounds", NoVal>>
          /\ GetMutRef(published, h) = <<"index out of bounds", NoVal>>
          /\ TryGet(published, h) = <<"none", NoVal>>
          /\ TryGetMut(published, h) = <<"none", NoVal>>

C17_StateAgrees == Exclusive => \A h \in 0..MaxCap : C17_Agree(h)

C17_GetMutStep ==
    \A i \in 0..MaxCap : \A v \in Values :
        GetMut(i, v) =>
            /\ (err' = "none") <=> (i < LenOf(published))
            /\ (err' = "index out of bounds") <=> ~(i < LenOf(published))

C17_SingleValidityTest == [][C17_StateAgrees /\ C17_GetMutStep]_vars

\* a get_mut on a stale handle has just failed in an arena holding two values
C17_Witness ==
    /\ Exclusive
    /\ err = "index out of bounds"
    /\ published = 2 /\ cap = 3
    /\ handles[0] = 1 /\ handles[1] = 1

\* C18: grow and grow_to leave len() unchanged, leave every accessor's answer
\* for every handle unchanged (values below len() and validity), accept and
\* reject the same checkpoints as before, and run no destructor.
C18_Frame ==
    /\ LenOf(published') = LenOf(published)
    /\ \A i \in Pos : i < LenOf(published) => data'[i] = data[i] /\ data'[i] # NoVal
    /\ \A h \in 0..MaxCap :
          /\ IsValid(published, h)' = IsValid(published, h)
          /\ Get(published, h)' = Get(published, h)
          /\ TryGet(published, h)' = TryGet(published, h)
    /\ \A cp \in 0..MaxCap : RollbackOk(cp, published)' = RollbackOk(cp, published)
    /\ handles' = handles /\ orig' = orig
    /\ dropLog' = <<>>
    /\ doubleDrop' = doubleDrop /\ leaked' = leaked

C18_GrowStep ==
    /\ \A m \in 0..MaxCap : GrowTo(m) => C18_Frame
    /\ Grow => C18_Frame

C18_GrowKeepsContents == [][C18_GrowStep]_vars

\* a full arena of two values has just been grown to capacity three
C18_Witness ==
    /\ Exclusive
    /\ cap = 3 /\ published = 2 /\ cursor = 2
    /\ handles[0] = 1 /\ handles[1] = 1
    /\ data[0] = orig[0] /\ data[1] = orig[1]
    /\ data[2] = NoVal
    /\ err = "none" /\ dropLog = <<>>

\* C19: grow_to(min) leaves capacity() == max(old capacity, min), grow() leaves
\* capacity() == 2 * old capacity, and no step of any operation lowers the
\* capacity.
C19_CapacityStep ==
    /\ \A m \in 0..MaxCap :
          GrowTo(m) => cap' = (IF m > cap THEN m ELSE cap)
    /\ Grow => cap' = 2 * cap
    /\ cap' >= cap

C19_CapacityGrowsOnly == [][C19_CapacityStep]_vars

\* an arena grown to capacity three and then filled
C19_Witness ==
    /\ Exclusive
    /\ cap = 3 /\ published = 3 /\ cursor = 3

\* C20: in single-threaded use that never stores more values than the
\* FastArena's capacity, the FastArena and the sequential Arena answer alike at
\* every step: alloc hands out the same position for the same value, and
\* between calls len, checkpoint, is_valid, get and try_get of every handle,
\* the outcome of rollback for every checkpoint and the values drain would
\* yield are the same.
C20_SameAnswers(b) ==
    /\ LenOf(b) = ArenaLen(items)
    /\ Checkpoint(b) = ArenaCheckpoint(items)
    /\ \A h \in 0..MaxCap :
          /\ IsValid(b, h) = ArenaIsValid(items, h)
          /\ Get(b, h) = ArenaGet(items, h)
          /\ TryGet(b, h) = ArenaTryGet(items, h)
    /\ \A cp \in 0..MaxCap : RollbackOk(cp, b) = ArenaRollbackOk(items, cp)
    /\ AsSlice(b) = ArenaDrained(items)

C20_MatchesSequentialArena ==
    /\ pc[Runner] # "idle" =>
          /\ slot[Runner] = ArenaAllocIdx(SubSeq(items, 1, Len(items) - 1))
          /\ items = ArenaAlloc(SubSeq(items, 1, Len(items) - 1), val[Runner])
          /\ err = "none"
    /\ AllIdle => C20_SameAnswers(published)
    /\ rpc = "loaded" => C20_SameAnswers(rloc)
    /\ err # "arena full"

\* both arenas hold the values 2 and 1, stored after a rollback freed position 1
C20_Witness ==
    /\ AllIdle
    /\ items = <<2, 1>>
    /\ published = 2
    /\ handles[1] = 1 /\ orig[1] = 1
    /\ cap = 2

\* C21: in single-threaded use the FastArena runs the destructors of rollback,
\* reset and drop on the same positions in the same order as the sequential
\* Arena does.
C21_OrderStep ==
    /\ \A cp \in 0..MaxCap : Rollback(cp) => dropLog' = ArenaRollbackDrops(items, cp)
    /\ Reset => dropLog' = ArenaResetDrops(items)
    /\ Teardown => dropLog' = ArenaDropDrops(items)

C21_SameDestructorOrder == [][C21_OrderStep]_vars

\* C22: from every arena state and for every finite sequence, extend and
\* alloc_extend by a single thread complete as the sequential Arena's do (no
\* panic), and once the call is over the FastArena holds what the Arena holds:
\* its previous elements followed by the elements of the sequence in order.
C22_BulkMatchesArena ==
    /\ ext[Runner].st # "panicked"
    /\ err # "arena full"
    /\ Exclusive => AsSlice(published) = items
    /\ \A t \in Threads : ext[t].st = "on" /\ pc[t] = "idle" /\ ext[t].rest = <<>> =>
          AsSlice(published) = items

\* C23: drain, and the consuming into_iter, yield every published value once,
\* in ascending position order; they leave len() == 0, cursor == 0, every
\* readiness flag cleared and the capacity as it was; they run no destructor,
\* and no later rollback, reset or teardown runs one on a moved-out value
\* (no cell keeps a value and none is below the boundary).
C23_Yielded ==
    /\ Len(out') = LenOf(published)
    /\ \A i \in Pos : i < LenOf(published) =>
          /\ out'[i + 1] = Get(published, i)[2]
          /\ out'[i + 1] # NoVal
          /\ handles[i] = 1 /\ orig[i] # NoVal => out'[i + 1] = orig[i]
    /\ LenOf(published') = 0
    /\ cursor' = 0
    /\ \A i \in Pos : ~flags'[i]
    /\ cap' = cap
    /\ dropLog' = <<>>
    /\ \A i \in Pos : data'[i] = NoVal
    /\ doubleDrop' = doubleDrop /\ leaked' = leaked

C23_DrainStep ==
    /\ Drain => C23_Yielded
    /\ IntoIter => C23_Yielded /\ torn'

C23_DrainMovesOut == [][C23_DrainStep]_vars /\ []~doubleDrop

\* a drain has just moved out the values 2 and 1 of a full arena
C23_Witness ==
    /\ ~torn
    /\ out = <<2, 1>>
    /\ cap = 2 /\ published = 0 /\ cursor = 0

\* C24: for a single sequential caller, alloc_extend with a non-empty sequence
\* of n elements that fit the remaining capacity stores element i at position
\* len() + i, len() being the length before the call, and returns the handle at
\* len(); with an empty sequence it returns the empty result and changes
\* nothing.
C24_Fits(e) == Len(e.seq) >= 1 /\ e.start + Len(e.seq) <= cap

C24_ExtendStep ==
    LET e == ext[Runner] IN
    /\ (AllocExtendClaim(Runner) /\ C24_Fits(e)) =>
          /\ pc'[Runner] = "write"
          /\ slot'[Runner] = e.start + Len(e.at)
          /\ val'[Runner] = e.seq[Len(e.at) + 1]
    /\ (AllocExtendReturn(Runner) /\ C24_Fits(e)) =>
          /\ e.first = <<"some", e.start>>
          /\ LenOf(published) = e.start + Len(e.seq)
          /\ \A i \in 0..(Len(e.seq) - 1) : Get(published, e.start + i) = <<"ref", e.seq[i + 1]>>
    /\ (AllocExtendReturn(Runner) /\ e.seq = <<>>) =>
          /\ e.first = <<"none">>
          /\ e.at = <<>>
          /\ LenOf(published) = e.start
    /\ BulkAllocExtend(<<>>) => UNCHANGED arenaVars

C24_AllocExtendContiguous == [][C24_ExtendStep]_vars

\* C25: when several threads call alloc_extend concurrently on a fresh arena
\* with no more elements in total than the capacity, no call fails, every
\* element of every sequence gets a position of its own, each caller's
\* elements lie in that caller's sequence order, every published element is
\* the one given, and once all calls are over len() is the total number of
\* elements.
C25_ConcurrentExtend ==
    /\ err # "arena full"
    /\ \A t \in Threads : ext[t].st # "panicked"
    /\ \A t, u \in Threads :
          \A k \in DOMAIN ext[t].at : \A j \in DOMAIN ext[u].at :
              (t # u \/ k # j) => ext[t].at[k] # ext[u].at[j]
    /\ \A t \in Threads :
          \A k, j \in DOMAIN ext[t].at : k < j => ext[t].at[k] < ext[t].at[j]
    /\ \A t \in Threads :
          \A k \in DOMAIN ext[t].at :
              IsValid(published, ext[t].at[k]) =>
                  Get(published, ext[t].at[k]) = <<"ref", ext[t].seq[k]>>
    /\ (AllIdle /\ \A t \in Threads : ext[t].st \in {"off", "done"}) =>
          /\ LenOf(published) = TotalLen
          /\ \A t \in Threads : Len(ext[t].at) = Len(ext[t].seq)

\* two calls are over whose elements interleave: one caller's two elements lie
\* at positions 0 and 2, the other caller's element between them
C25_Witness ==
    /\ AllIdle
    /\ \A t \in Threads : ext[t].st = "done"
    /\ \E t, u \in Threads :
          /\ ext[t].at = <<0, 2>> /\ ext[t].seq = <<1, 2>>
          /\ ext[u].at = <<1>> /\ ext[u].seq = <<2>>
    /\ published = 3

\* C26: the slice an as_slice call returns has the length of the boundary the
\* call read, and its element i is what get returns for position i, a written
\* value, and the slice is a prefix of the view over all published positions
\* at the time; while threads allocate and read, the boundary does not move
\* back and the view over all published positions before a step is a prefix of
\* the view after it, so every slice observed is a prefix of every later one.
C26_IsPrefix(s, t) == Len(s) <= Len(t) /\ \A k \in 1..Len(s) : s[k] = t[k]

C26_SliceIsView ==
    rpc = "loaded" =>
        /\ rloc <= published
        /\ Len(AsSlice(rloc)) = rloc
        /\ C26_IsPrefix(AsSlice(rloc), AsSlice(published))
        /\ \A i \in Pos : i < rloc =>
              /\ Get(rloc, i) = <<"ref", AsSlice(rloc)[i + 1]>>
              /\ AsSlice(rloc)[i + 1] # NoVal
              /\ handles[i] > 0 /\ orig[i] # NoVal => AsSlice(rloc)[i + 1] = orig[i]

C26_PrefixStep ==
    ((\E t \in Threads : WriterStep(t)) \/ ReaderStep) =>
        /\ published' >= published
        /\ C26_IsPrefix(AsSlice(published), AsSlice(published)')

C26_SlicePrefixes == [][C26_SliceIsView /\ C26_PrefixStep]_vars

\* an as_slice call has read the boundary 1; the boundary has moved on to 2
\* since and another alloc is in flight
C26_Witness ==
    /\ rpc = "loaded"
    /\ rloc = 1
    /\ published = 2
    /\ data[0] # data[1]
    /\ \E t \in Threads : pc[t] = "flag" /\ slot[t] = 2

\* C27 as stated: in every step of a live arena that is neither a rollback nor
\* a reset (alloc, grow, grow_to, drain, reads), the claim cursor and the
\* published boundary stay equal or grow.
C27_Monotone == cursor' >= cursor /\ published' >= published

C27_LoweredOnlyByRollbackReset ==
    [][(~torn' /\ ~(\E cp \in 0..MaxCap : Rollback(cp)) /\ ~Reset) => C27_Monotone]_vars

\* C27, amended: in every step of a live arena that is neither a rollback, a
\* reset nor a drain (alloc, grow, grow_to, get_mut, reads), the claim cursor
\* and the published boundary stay equal or grow; drain sets both to zero.
C27_AmendedStep ==
    /\ (~torn' /\ ~(\E cp \in 0..MaxCap : Rollback(cp)) /\ ~Reset /\ ~Drain)
          => C27_Monotone
    /\ Drain => cursor' = 0 /\ published' = 0

C27_LoweredOnlyByRollbackResetDrain == [][C27_AmendedStep]_vars

\* a drain has just handed out two values and put both counters back to zero
C27_Witness ==
    /\ ~torn
    /\ Len(out) = 2
    /\ cursor = 0
    /\ published = 0

\* C28: a handle holds only its position.  A kept handle whose position a
\* rollback or reset has removed is rejected (is_valid false, get and try_get
\* fail) for as long as the boundary has not come back over its position; once
\* new allocations have, get on it succeeds and returns the value of the latest
\* allocation at that position, whatever value the handle was first given for.
C28_LatestAt(i) ==
    IF handles[i] > 0 THEN orig[i]
    ELSE IF \E t \in Threads : pc[t] # "idle" /\ slot[t] = i
         THEN val[CHOOSE t \in Threads : pc[t] # "idle" /\ slot[t] = i]
         ELSE NoVal

C29_SameCalls == ENABLED Reset <=> ENABLED Rollback(0)

C29_Step ==
    /\ Reset <=> Rollback(0)
    /\ Reset =>
          /\ published' = 0
          /\ cursor' = 0
          /\ \A i \in Pos : ~flags'[i]
          /\ cap' = cap
          /\ err' = "none"
          /\ dropLog' = RevRange(0, published)
          /\ \A j, k \in 1..Len(dropLog') : j # k => dropLog'[j] # dropLog'[k]
          /\ doubleDrop' = doubleDrop

C29_ResetIsRollbackToZero == []C29_SameCalls /\ [][C29_Step]_vars

\* a reset, or a rollback to length 0, has just destroyed positions 1 and 0
C29_Witness ==
    /\ ~torn
    /\ dropLog = <<1, 0>>
    /\ published = 0
    /\ cursor = 0
    /\ err = "none"
    /\ \A i \in Pos : ~flags[i] /\ data[i] = NoVal

\* C30: a step of an alloc call changes no cell but the one at the slot the
\* call claimed, and that slot is not below the boundary: while threads
\* allocate and read, every position below the boundary keeps its value and
\* get on it keeps returning it.
C30_Step ==
    \A t \in Threads : (WriterStep(t) \/ ReaderStep) =>
        /\ \A i \in Pos : data'[i] # data[i] =>
              /\ pc[t] = "write"
              /\ i = slot[t]
              /\ i >= published
        /\ \A i \in Pos : i < published =>
              /\ data'[i] = data[i]
              /\ Get(published', i) = Get(published, i)

C30_AllocWritesOwnSlot == [][C30_Step]_vars

\* position 0 is published and holds 1; two other allocs are in flight, one of
\* them has just written 2 into its slot
C30_Witness ==
    /\ published = 1
    /\ data[0] = 1
    /\ \E t, u \in Threads :
          /\ t # u
          /\ pc[t] = "flag" /\ slot[t] >= 1 /\ data[slot[t]] = 2
          /\ pc[u] # "idle" /\ slot[u] >= 1

\* C31: the case of the claim, a capacity whose double does not fit the
\* machine word, is one no arena is ever in: alloc_storage bounds the capacity
\* by isize::MAX, so checked_mul(2) in grow always has a result.
C31_DoubleAlwaysFits == cap <= IsizeMax /\ CheckedMul(cap, 2)[1] = "some"

\* C32: rollbacks compose.  After a rollback to cp2, a rollback to any
\* cp1 <= cp2 would destroy exactly the positions a rollback to cp1 alone would
\* have destroyed and the first one has not, none twice, and would leave the
\* cells and flags the rollback to cp1 alone would have left; and a rollback to
\* the current length destroys nothing and changes nothing of the arena.
C32_After(f, empty, order) == [i \in Pos |-> IF i \in Visited(order) THEN empty ELSE f[i]]

C32_Composes(cp2) ==
    \A cp1 \in 0..cp2 :
        /\ Visited(dropLog') \cup Visited(RevRange(cp1, published'))
              = Visited(RevRange(cp1, published))
        /\ Visited(dropLog') \cap Visited(RevRange(cp1, published')) = {}
        /\ \A j, k \in 1..Len(dropLog') : j # k => dropLog'[j] # dropLog'[k]
        /\ C32_After(data', NoVal, RevRange(cp1, published'))
              = C32_After(data, NoVal, RevRange(cp1, published))
        /\ C32_After(flags', FALSE, RevRange(cp1, published'))
              = C32_After(flags, FALSE, RevRange(cp1, published))

C32_NoOp == dropLog' = <<>> /\ err' = "none" /\ UNCHANGED arenaVars

C32_Step ==
    \A cp \in 0..MaxCap :
        (Rollback(cp) /\ RollbackOk(cp, published)) =>
            /\ C32_Composes(cp)
            /\ cp = published => C32_NoOp

C32_RollbacksCompose == [][C32_Step]_vars

\* C33: in every reachable state the flag of every position below the boundary
\* is set and the flag of every position from the cursor up to the capacity is
\* clear; and the boundary only ever advances over a position whose flag is
\* set and whose cell holds a written value.
C33_FlagsMirror ==
    \A i \in Pos :
        /\ i < published => flags[i]
        /\ (cursor <= i /\ i < cap) => ~flags[i]
        /\ i >= cap => ~flags[i]

C33_AdvanceStep ==
    published' > published =>
        /\ published' = published + 1
        /\ flags[published]
        /\ data[published] # NoVal

C33_FlagsMirrorSlots == []C33_FlagsMirror /\ [][C33_AdvanceStep]_vars

\* a rollback has just destroyed position 1 and cleared its flag; position 0
\* stays published with its flag set
C33_Witness ==
    /\ ~torn
    /\ dropLog = <<1>>
    /\ published = 1
    /\ cursor = 1
    /\ cap >= 2
    /\ flags[0]
    /\ ~flags[1]

\* C34: whenever no alloc call is in flight and no alloc has failed since the
\* latest rollback, reset or drain, the cursor equals the published boundary.
C34_QuiescentCursor == (AllIdle /\ ~failed) => cursor = published

\* two allocs have returned, none is in flight and none has failed
C34_Witness ==
    /\ ~torn
    /\ AllIdle
    /\ ~failed
    /\ cursor = 2
    /\ published = 2
    /\ handles[0] > 0 /\ handles[1] > 0

\* C35: N threads each call alloc once on an arena that had C < N free slots
\* when the first of them called.  At no moment have more than C calls
\* returned, and only with positions among the C lowest free ones; when all
\* calls are over exactly C have returned, with exactly those positions,
\* exactly N - C have failed with "arena full", and len() has advanced by C;
\* and all calls do get over: no successful call is left spinning.
C35_Free == cap - ext[1].start
C35_Returned == {t \in Threads : ext[t].first # <<"none">>}
C35_Failed == {t \in Threads : ext[t].st = "panicked"}
C35_AllOver == \A t \in Threads : ext[t].st \in {"done", "panicked"}

C35_Outcome ==
    (ext[1].st # "off" /\ C35_Free < NThreads) =>
        /\ Cardinality(C35_Returned) <= C35_Free
        /\ \A t \in C35_Returned :
              /\ ext[t].first[2] >= ext[1].start
              /\ ext[t].first[2] < ext[1].start + C35_Free
              /\ \A u \in C35_Returned : u # t => ext[u].first[2] # ext[t].first[2]
        /\ C35_AllOver =>
              /\ Cardinality(C35_Returned) = C35_Free
              /\ Cardinality(C35_Failed) = NThreads - C35_Free
              /\ C35_Returned \cap C35_Failed = {}
              /\ LenOf(published) = ext[1].start + C35_Free
              /\ AllIdle

C36_Flagged == Cardinality({i \in Pos : flags[i]})
C36_ClaimedInBounds == IF cursor < cap THEN cursor ELSE cap

C36_CountsOrdered ==
    /\ NumHandles <= LenOf(published)
    /\ LenOf(published) <= C36_Flagged
    /\ C36_Flagged <= C36_ClaimedInBounds
    /\ C36_ClaimedInBounds <= cursor

\* two calls have claimed, written and flagged their slots, the boundary has
\* moved over the first of them, and neither call has returned yet
C36_Witness ==
    /\ NumHandles = 0
    /\ LenOf(published) = 1
    /\ C36_Flagged = 2
    /\ cursor = 2
    /\ \A t \in Threads : pc[t] # "idle"
====
